---- MODULE Spec2Model ----
(***************************************************************************)
(* A model of the chat message store of src/src/store/messages.ts: the     *)
(* zustand store (messages, input, isLoading, latestAIMessageId,           *)
(* currentStreamingMessage), its operations addMessage, setInput,          *)
(* sendMessage, handleAIResponse, replyToMessage and sendToGeminiStream,   *)
(* and the pure tree builder buildmessageTree.                             *)
(*                                                                         *)
(* Strings that the code inspects character by character (message text,    *)
(* the input field, stream fragments) are sequences of one-character       *)
(* strings; a character that has no escape in a TLA+ string is the string  *)
(* of its JavaScript escape, as "\\u000B".                                  *)
(* Ids are TLA+ strings.  JavaScript's null and undefined for an           *)
(* id-valued field are the value Null; a Partial<Message> is a record      *)
(* whose domain holds exactly the fields the caller supplied.              *)
(***************************************************************************)
EXTENDS Integers, Sequences, FiniteSets, TLC

VARIABLES
    messages,                \* MessageState.messages
    input,                   \* MessageState.input
    isLoading,               \* MessageState.isLoading
    latestAIMessageId,       \* MessageState.latestAIMessageId
    currentStreamingMessage, \* MessageState.currentStreamingMessage
    uuidCount,               \* how many ids uuidv4() has handed out
    calls,                   \* the asynchronous calls, each with its position
    ops,                     \* the part of the budget MaxOps used so far
    last,                    \* the operation that made the last step
    treeInput,               \* buildmessageTree: the messages argument
    nodeMap,                 \* buildmessageTree: nodeMap (id -> node)
    replies,                 \* buildmessageTree: the replies array of each node
    roots,                   \* buildmessageTree: roots
    treePc,                  \* buildmessageTree: position in the function
    treeIdx,                 \* buildmessageTree: index of the running forEach
    built                    \* the forests returned by the builds so far

storeVars == <<messages, input, isLoading, latestAIMessageId,
               currentStreamingMessage, uuidCount, calls, ops, last>>
treeVars == <<treeInput, nodeMap, replies, roots, treePc, treeIdx, built>>
vars == <<messages, input, isLoading, latestAIMessageId,
          currentStreamingMessage, uuidCount, calls, ops, last,
          treeInput, nodeMap, replies, roots, treePc, treeIdx, built>>

-----------------------------------------------------------------------------
(* Bounds of the model *)

MaxOps == 3        \* messages appended, fragments yielded and other calls made
MaxTreeLen == 3    \* longest input of buildmessageTree

-----------------------------------------------------------------------------
(* Values *)

\* null / undefined of an id-valued field
Null == "<null>"

\* JavaScript truthiness of a string-or-null value (x || y, x && y)
Truthy(x) == x # Null /\ x # ""

\* JavaScript truthiness of a string held as a sequence of characters
TruthyText(t) == Len(t) > 0

\* the characters the regular expression's "." does not match: the line
\* terminators of ECMAScript
LineTerminators == {"\n", "\r", "\\u2028", "\\u2029"}

\* the characters String.prototype.trim removes: the white space of
\* ECMAScript (tab, vertical tab, form feed, space, no-break space, the byte
\* order mark and the space separators of Unicode) and its line terminators
WhiteSpace ==
    {"\t", "\\u000B", "\f", " ", "\\u00A0", "\\uFEFF",
     "\\u1680", "\\u2000", "\\u2001", "\\u2002", "\\u2003", "\\u2004",
     "\\u2005", "\\u2006", "\\u2007", "\\u2008", "\\u2009", "\\u200A",
     "\\u202F", "\\u205F", "\\u3000"}
    \cup LineTerminators

RECURSIVE TrimStart(_)
TrimStart(t) ==
    IF Len(t) > 0 /\ Head(t) \in WhiteSpace THEN TrimStart(Tail(t)) ELSE t

RECURSIVE TrimEnd(_)
TrimEnd(t) ==
    IF Len(t) > 0 /\ t[Len(t)] \in WhiteSpace
    THEN TrimEnd(SubSeq(t, 1, Len(t) - 1))
    ELSE t

\* text.trim()
Trim(t) == TrimEnd(TrimStart(t))

\* the emptiness test without the trim: !text
IsEmptyText(t) == ~TruthyText(t)

\* !text.trim()
IsBlank(t) == ~TruthyText(Trim(t))

-----------------------------------------------------------------------------
(* beautifyPlainText *)

\* d asterisks start at position i of t
DelimAt(t, i, d) ==
    /\ i >= 1
    /\ i + d - 1 <= Len(t)
    /\ \A k \in 0..(d - 1) : t[i + k] = "*"

\* where a closing delimiter may stand for an opening one at i: the lazy
\* group (.*?) takes no line terminator
Closings(t, i, d) ==
    { j \in (i + d)..Len(t) :
        /\ DelimAt(t, j, d)
        /\ \A k \in (i + d)..(j - 1) : t[k] \notin LineTerminators }

Least(S) == CHOOSE x \in S : \A y \in S : x <= y

\* text.replace(/<d stars>(.*?)<d stars>/g, '$1') from position i on
RECURSIVE ReplaceFrom(_, _, _)
ReplaceFrom(t, i, d) ==
    IF i > Len(t) THEN <<>>
    ELSE IF DelimAt(t, i, d) /\ Closings(t, i, d) # {}
    THEN LET j == Least(Closings(t, i, d))
         IN  SubSeq(t, i + d, j - 1) \o ReplaceFrom(t, j + d, d)
    ELSE <<t[i]>> \o ReplaceFrom(t, i + 1, d)

beautifyPlainText(text) == ReplaceFrom(ReplaceFrom(text, 1, 2), 1, 1)

-----------------------------------------------------------------------------
(* The store as a value: what set() reads and returns *)

Store ==
    [messages |-> messages,
     input |-> input,
     isLoading |-> isLoading,
     latestAIMessageId |-> latestAIMessageId,
     currentStreamingMessage |-> currentStreamingMessage]

\* create(...): the initial field values
InitialStore ==
    [messages |-> <<>>,
     input |-> <<>>,
     isLoading |-> FALSE,
     latestAIMessageId |-> Null,
     currentStreamingMessage |-> Null]

\* the store's fields become those of st
Becomes(st) ==
    /\ messages' = st.messages
    /\ input' = st.input
    /\ isLoading' = st.isLoading
    /\ latestAIMessageId' = st.latestAIMessageId
    /\ currentStreamingMessage' = st.currentStreamingMessage

\* uuidv4(): the n-th identifier it hands out; never a decimal number
uuidv4(n) == "uuid-" \o ToString(n)

\* Date.now() + 1 + ''
ClockId(clock) == ToString(clock + 1)

Has(md, f) == f \in DOMAIN md

\* addMessage consults uuidv4 only when messageData.id is falsy
NeedsUuid(md) == ~(Has(md, "id") /\ Truthy(md.id))

\* addMessage: the record built from messageData.  A timestamp is a Date, an
\* object and so truthy whatever its time, held here as its milliseconds
NewMessage(md, uuid, clock) ==
    [id |-> IF Has(md, "id") /\ Truthy(md.id) THEN md.id ELSE uuid,
     text |-> IF Has(md, "text") /\ TruthyText(md.text) THEN md.text ELSE <<>>,
     sender |-> IF Has(md, "sender") /\ Truthy(md.sender)
                THEN md.sender ELSE "user",
     timestamp |-> IF Has(md, "timestamp") THEN md.timestamp ELSE clock,
     isCode |-> IF Has(md, "isCode") /\ md.isCode THEN md.isCode ELSE FALSE,
     parentId |-> IF Has(md, "parentId") /\ Truthy(md.parentId)
                  THEN md.parentId ELSE Null]

\* addMessage: the latestAIMessageId its set() writes
LatestAfterAdd(message, latest) ==
    IF message.sender = "user" THEN message.id ELSE latest

\* addMessage putting the new message in front: [message, ...state.messages]
addMessageInFront(st, message) ==
    [st EXCEPT !.messages = <<message>> \o st.messages,
               !.latestAIMessageId = LatestAfterAdd(message, st.latestAIMessageId)]

\* addMessage: the store after its set()
addMessage(st, message) ==
    [st EXCEPT !.messages = Append(st.messages, message),
               !.latestAIMessageId = LatestAfterAdd(message, st.latestAIMessageId)]

setInput(st, text) == [st EXCEPT !.input = text]

setIsLoading(st, loading) == [st EXCEPT !.isLoading = loading]

\* sendToGeminiStream: the message its first set() appends.  clock holds
\* the two readings of the call: Date.now() for the id, then new Date()
StreamMessage(st, clock) ==
    [id |-> ClockId(clock[1]),
     text |-> <<>>,
     sender |-> "ai",
     timestamp |-> clock[2],
     parentId |-> st.latestAIMessageId]

\* sendToGeminiStream: the store after its first set()
streamAllocate(st, clock) ==
    [st EXCEPT !.messages = Append(st.messages, StreamMessage(st, clock)),
               !.currentStreamingMessage = ClockId(clock[1]),
               !.latestAIMessageId = ClockId(clock[1])]

\* the for-await body with the new fragment put before the text so far
applyChunkInFront(st, textChunk) ==
    [st EXCEPT !.messages =
        [i \in 1..Len(st.messages) |->
            IF st.messages[i].id = st.currentStreamingMessage
            THEN [st.messages[i] EXCEPT
                    !.text = beautifyPlainText(textChunk) \o st.messages[i].text]
            ELSE st.messages[i]]]

\* sendToGeminiStream: the set() of the for-await body
applyChunk(st, textChunk) ==
    [st EXCEPT !.messages =
        [i \in 1..Len(st.messages) |->
            IF st.messages[i].id = st.currentStreamingMessage
            THEN [st.messages[i] EXCEPT
                    !.text = st.messages[i].text \o beautifyPlainText(textChunk)]
            ELSE st.messages[i]]]

ErrorText ==
    <<"E","r","r","o","r",":"," ","C","o","u","l","d"," ","n","o","t"," ",
      "p","r","o","c","e","s","s"," ","y","o","u","r"," ",
      "r","e","q","u","e","s","t",".">>

\* the catch block writing the error text to every message
applyErrorToAll(st) ==
    [st EXCEPT !.messages =
        [i \in 1..Len(st.messages) |->
            [st.messages[i] EXCEPT !.text = ErrorText]]]

\* sendToGeminiStream: the set() of the catch block
applyError(st) ==
    [st EXCEPT !.messages =
        [i \in 1..Len(st.messages) |->
            IF st.messages[i].id = st.currentStreamingMessage
            THEN [st.messages[i] EXCEPT !.text = ErrorText]
            ELSE st.messages[i]]]

\* the finally block clearing the loading flag only
streamFinallyKeepsTarget(st) == [st EXCEPT !.isLoading = FALSE]

\* sendToGeminiStream: the set() of the finally block
streamFinally(st) ==
    [st EXCEPT !.isLoading = FALSE, !.currentStreamingMessage = Null]

-----------------------------------------------------------------------------
(* Inputs the environment supplies *)

\* texts typed into the input field or passed to the orchestrators
Texts ==
    { <<>>, <<"\\u000B", "\n">>, <<" ", "h", "i", " ">> }

\* what the external stream holds: it yields these fragments in this order
\* and may end, or throw, after any number of them
Script ==
    << <<"H", "e", "l">>,
       <<"*", "*", "l", "o", "*", "*", " ">>,
       <<"*", "w", "o", "r", "l", "d", "*">> >>

\* parentId arguments of replyToMessage
ReplyParents == { "1", "" }

\* partial messages handed to addMessage
Partials ==
    { <<>>,
      [id |-> "1", text |-> <<"h", "i">>, sender |-> "ai", timestamp |-> 0,
       isCode |-> TRUE, parentId |-> "1"],
      [id |-> "", text |-> <<>>, sender |-> "user", isCode |-> FALSE,
       parentId |-> ""] }

-----------------------------------------------------------------------------
(* The asynchronous calls *)

\* every call of the environment may start a stream
CallIds == 1..MaxOps

IdleCall ==
    [caller |-> "none", pc |-> "idle", aiIdx |-> 0, userIdx |-> 0,
     got |-> 0, overlapped |-> FALSE]

\* sendToGeminiStream of call c has allocated its message and not yet exited:
\* it is suspended at the await of generateContentStream or of the next chunk
Active(c) == calls[c].pc = "streaming"

\* the slot of the next call
FreeCall(c) ==
    /\ calls[c].pc = "idle"
    /\ \A d \in CallIds : d < c => calls[d].pc # "idle"

\* call c enters sendToGeminiStream and suspends at its first await
Started(c, caller, userIdx, aiIdx) ==
    calls' = [d \in CallIds |->
        IF d = c
        THEN [caller |-> caller, pc |-> "streaming", aiIdx |-> aiIdx,
              userIdx |-> userIdx, got |-> 0,
              overlapped |-> \E e \in CallIds : Active(e)]
        ELSE IF Active(d) THEN [calls[d] EXCEPT !.overlapped = TRUE]
        ELSE calls[d]]

\* the uuid counter after an addMessage(md)
UuidAfter(md) == IF NeedsUuid(md) THEN uuidCount + 1 ELSE uuidCount

\* handleAIResponse(userMessage) up to its await: the emptiness check,
\* addMessage, setIsLoading(true) and the synchronous part of
\* sendToGeminiStream.  clock holds the three readings of the call: new
\* Date() of addMessage, then the two of sendToGeminiStream
handleAIResponse(st, userMessage, uuid, clock) ==
    IF IsBlank(userMessage) THEN st
    ELSE LET message == NewMessage([sender |-> "user", text |-> userMessage,
                                    isCode |-> FALSE], uuid, clock[1])
         IN  streamAllocate(setIsLoading(addMessage(st, message), TRUE),
                            Tail(clock))

\* replyToMessage passing no parentId on to addMessage
replyToMessageUnparented(st, parentId, text, uuid, clock) ==
    handleAIResponse(st, text, uuid, clock)

\* replyToMessage(parentId, text) up to its await
replyToMessage(st, parentId, text, uuid, clock) ==
    IF IsBlank(text) THEN st
    ELSE LET userMessage == NewMessage([sender |-> "user", text |-> text,
                                        isCode |-> FALSE, parentId |-> parentId],
                                       uuid, clock[1])
         IN  streamAllocate(setIsLoading(addMessage(st, userMessage), TRUE),
                            Tail(clock))

\* sendMessage passing on the trimmed input: handleAIResponse(input.trim())
sendMessageTrimmed(st, uuid, clock) ==
    IF IsBlank(st.input) THEN st
    ELSE handleAIResponse(setInput(st, <<>>), Trim(st.input), uuid, clock)

\* sendMessage() up to its await
sendMessage(st, uuid, clock) ==
    IF IsBlank(st.input) THEN st
    ELSE handleAIResponse(setInput(st, <<>>), st.input, uuid, clock)

FallbackText ==
    <<"S","o","r","r","y",","," ","I"," ","e","n","c","o","u","n","t","e","r",
      "e","d"," ","a","n"," ","e","r","r","o","r"," ","p","r","o","c","e","s",
      "s","i","n","g"," ","y","o","u","r"," ","r","e","q","u","e","s","t",".">>

\* a sendToGeminiStream whose catch block throws again what it caught
StreamOutcomeRethrows(exit) ==
    IF exit = "fail" THEN "rejected" ELSE "resolved"

\* how the promise of sendToGeminiStream settles: its catch block swallows
\* what the request or the stream throws, and nothing in the catch or the
\* finally block throws
StreamOutcome(exit) == "resolved"

\* handleAIResponse and replyToMessage after their await: the catch block
\* runs when sendToGeminiStream rejected; a direct call has no caller
afterStream(st, caller, outcome, userMessageId, uuid, clock) ==
    IF caller = "orchestrator" /\ outcome = "rejected"
    THEN setIsLoading(
             addMessage(st, NewMessage([sender |-> "ai", text |-> FallbackText,
                                        isCode |-> FALSE,
                                        parentId |-> userMessageId],
                                       uuid, clock)),
             FALSE)
    ELSE st

-----------------------------------------------------------------------------
(* Operations of the store *)

StoreInit ==
    /\ messages = InitialStore.messages
    /\ input = InitialStore.input
    /\ isLoading = InitialStore.isLoading
    /\ latestAIMessageId = InitialStore.latestAIMessageId
    /\ currentStreamingMessage = InitialStore.currentStreamingMessage
    /\ uuidCount = 0
    /\ calls = [c \in CallIds |-> IdleCall]
    /\ ops = 0
    /\ last = [op |-> "init"]

TreeIdle ==
    /\ treeInput = <<>>
    /\ nodeMap = <<>>
    /\ replies = <<>>
    /\ roots = <<>>
    /\ treePc = "idle"
    /\ treeIdx = 0
    /\ built = <<>>

Init == StoreInit /\ TreeIdle

\* the values Date.now() and new Date() may return: the wall clock, which
\* may stand still, go on or be set back between any two readings
Clock == {0, 1, 2}

\* the n readings a call makes before it returns or suspends, in order
ClockReadings(n) == [1..n -> Clock]

\* the readings of an orchestrator called with text: none when it returns at
\* once, else new Date() of addMessage and the two of sendToGeminiStream
OrchestratorReadings(text) ==
    IF IsBlank(text) THEN {<<>>} ELSE ClockReadings(3)

\* addMessage(md) called from outside the store; it reads the clock when
\* md has no timestamp, and else clock is no reading and held at 0
AddMessage(md, clock) ==
    /\ ops < MaxOps
    /\ ops' = ops + 1
    /\ Has(md, "timestamp") => clock = 0
    /\ LET message == NewMessage(md, uuidv4(uuidCount + 1), clock)
       IN  /\ Becomes(addMessage(Store, message))
           /\ last' = [op |-> "addMessage", md |-> md, ret |-> message]
    /\ uuidCount' = UuidAfter(md)
    /\ UNCHANGED calls
    /\ UNCHANGED treeVars

\* setInput(text)
SetInput(text) ==
    /\ ops < MaxOps
    /\ ops' = ops + 1
    /\ text # input
    /\ Becomes(setInput(Store, text))
    /\ last' = [op |-> "setInput", text |-> text]
    /\ UNCHANGED <<uuidCount, calls>>
    /\ UNCHANGED treeVars

\* setIsLoading(loading) called from outside the store
SetIsLoading(loading) ==
    /\ ops < MaxOps
    /\ ops' = ops + 1
    /\ Becomes(setIsLoading(Store, loading))
    /\ last' = [op |-> "setIsLoading", loading |-> loading]
    /\ UNCHANGED <<uuidCount, calls>>
    /\ UNCHANGED treeVars

\* what a call of an orchestrator takes of the budget: one for each message
\* it appends, and one when it returns at once
Cost(text) == IF IsBlank(text) THEN 1 ELSE 2

\* an orchestrator ran up to its first await (or returned at once) and left
\* the store as st; when it went on, call c is suspended in
\* sendToGeminiStream
Orchestrated(c, text, clock, st, op) ==
    /\ ops + Cost(text) <= MaxOps
    /\ ops' = ops + Cost(text)
    /\ Becomes(st)
    /\ last' = op
    /\ IF IsBlank(text)
       THEN UNCHANGED <<uuidCount, calls>>
       ELSE /\ uuidCount' = uuidCount + 1
            /\ Started(c, "orchestrator", Len(messages) + 1,
                       Len(messages) + 2)
    /\ UNCHANGED treeVars

\* sendMessage()
SendMessage(c, clock) ==
    /\ FreeCall(c)
    /\ Orchestrated(c, input, clock,
                    sendMessage(Store, uuidv4(uuidCount + 1), clock),
                    [op |-> "sendMessage", text |-> input])

\* handleAIResponse(userMessage) called from outside the store
HandleAIResponse(c, userMessage, clock) ==
    /\ FreeCall(c)
    /\ Orchestrated(c, userMessage, clock,
                    handleAIResponse(Store, userMessage,
                                     uuidv4(uuidCount + 1), clock),
                    [op |-> "handleAIResponse", text |-> userMessage])

\* replyToMessage(parentId, text)
ReplyToMessage(c, parentId, text, clock) ==
    /\ FreeCall(c)
    /\ Orchestrated(c, text, clock,
                    replyToMessage(Store, parentId, text,
                                   uuidv4(uuidCount + 1), clock),
                    [op |-> "replyToMessage", text |-> text,
                     parentId |-> IF IsBlank(text) THEN Null ELSE parentId])

\* sendToGeminiStream(userMessage) called from outside the store, up to its
\* first await
SendToGeminiStream(c, clock) ==
    /\ FreeCall(c)
    /\ ops < MaxOps
    /\ ops' = ops + 1
    /\ Becomes(streamAllocate(Store, clock))
    /\ Started(c, "none", 0, Len(messages) + 1)
    /\ last' = [op |-> "sendToGeminiStream", call |-> c]
    /\ UNCHANGED uuidCount
    /\ UNCHANGED treeVars

\* the stream yields its next fragment: one pass of the for-await body
StreamChunk(c) ==
    /\ Active(c)
    /\ calls[c].got < Len(Script)
    /\ ops < MaxOps
    /\ ops' = ops + 1
    /\ Becomes(applyChunk(Store, Script[calls[c].got + 1]))
    /\ calls' = [calls EXCEPT ![c].got = @ + 1]
    /\ last' = [op |-> "chunk", call |-> c]
    /\ UNCHANGED uuidCount
    /\ UNCHANGED treeVars

\* sendToGeminiStream returned or threw, and with that the await of the
\* orchestrator that called it; the store is left as st.  The catch block
\* of the orchestrator reads the clock in its addMessage; when it does not
\* run clock is no reading and held at 0
Exited(c, st, op, clock) ==
    /\ (calls[c].caller # "orchestrator" \/ StreamOutcome(op) # "rejected")
           => clock = 0
    /\ Becomes(afterStream(st, calls[c].caller, StreamOutcome(op),
                           IF calls[c].userIdx = 0 THEN Null
                           ELSE messages[calls[c].userIdx].id,
                           uuidv4(uuidCount + 1), clock))
    /\ uuidCount' = IF calls[c].caller = "orchestrator"
                       /\ StreamOutcome(op) = "rejected"
                    THEN uuidCount + 1 ELSE uuidCount
    /\ calls' = [calls EXCEPT ![c].pc = "done"]
    /\ last' = [op |-> op, call |-> c]
    /\ UNCHANGED ops
    /\ UNCHANGED treeVars

\* the stream ends: the loop is left and the finally block runs
StreamComplete(c, clock) ==
    /\ Active(c)
    /\ Exited(c, streamFinally(Store), "complete", clock)

\* the request or the stream throws: the catch block, then the finally block
StreamFail(c, clock) ==
    /\ Active(c)
    /\ Exited(c, streamFinally(applyError(Store)), "fail", clock)

Next ==
    \/ \E md \in Partials, t \in Clock : AddMessage(md, t)
    \/ \E text \in Texts : SetInput(text)
    \/ \E loading \in BOOLEAN : SetIsLoading(loading)
    \/ \E c \in CallIds : \E t \in OrchestratorReadings(input) :
           SendMessage(c, t)
    \/ \E c \in CallIds, text \in Texts : \E t \in OrchestratorReadings(text) :
           HandleAIResponse(c, text, t)
    \/ \E c \in CallIds, p \in ReplyParents, text \in Texts :
           \E t \in OrchestratorReadings(text) : ReplyToMessage(c, p, text, t)
    \/ \E c \in CallIds, t \in ClockReadings(2) : SendToGeminiStream(c, t)
    \/ \E c \in CallIds : StreamChunk(c)
    \/ \E c \in CallIds, t \in Clock : StreamComplete(c, t)
    \/ \E c \in CallIds, t \in Clock : StreamFail(c, t)

Spec == Init /\ [][Next]_vars

\* the event loop runs every continuation that is ready, and the external
\* source ends or fails every stream it has opened
Fairness ==
    \A c \in CallIds :
        WF_vars(\E t \in Clock : StreamComplete(c, t) \/ StreamFail(c, t))

LiveSpec == Init /\ [][Next]_vars /\ Fairness

-----------------------------------------------------------------------------
(* buildmessageTree *)

\* ids and parentIds of the messages handed to buildmessageTree
TreeIds == { "", "a", "b" }

\* the message at position i of an input: its text tells it from the others
TreeMessage(i, id, parentId) ==
    [id |-> id, text |-> <<ToString(i)>>, sender |-> "user", timestamp |-> 0,
     isCode |-> FALSE, parentId |-> parentId]

\* the input with these ids and parentIds
TreeInput(ids, parents) ==
    [i \in 1..Len(ids) |-> TreeMessage(i, ids[i], parents[i])]

\* nodeMap.has(id)
MapHas(map, id) == id \in DOMAIN map

\* nodeMap.set(id, node): a later entry for the same id replaces the earlier
MapSet(map, id, node) ==
    [k \in DOMAIN map \cup {id} |-> IF k = id THEN node ELSE map[k]]

\* the test without its truthiness half: nodeMap.has(message.parentId)
HasParentAnyId(map, message) == MapHas(map, message.parentId)

\* message.parentId && nodeMap.has(message.parentId)
HasParent(map, message) ==
    Truthy(message.parentId) /\ MapHas(map, message.parentId)

\* the forest a build returns: the root list and, behind it, the nodes it
\* refers to; node n holds the message treeInput[n]
Forest == [roots |-> roots, replies |-> replies, messages |-> treeInput]

TreeInit ==
    /\ StoreInit
    /\ \E n \in 0..MaxTreeLen :
           \E ids \in [1..n -> TreeIds],
              parents \in [1..n -> TreeIds \cup {Null}] :
               treeInput = TreeInput(ids, parents)
    /\ nodeMap = <<>>
    /\ replies = <<>>
    /\ roots = <<>>
    /\ treePc = "idle"
    /\ treeIdx = 0
    /\ built = <<>>

\* buildmessageTree(treeInput) is called, a first and a second time: new Map()
BuildStart ==
    /\ treePc = "idle"
    /\ Len(built) < 2
    /\ nodeMap' = <<>>
    /\ replies' = <<>>
    /\ treePc' = "nodes"
    /\ treeIdx' = 1
    /\ UNCHANGED <<treeInput, roots, built>>
    /\ UNCHANGED storeVars

\* one pass of the first forEach: a node with no replies for the message
BuildNode ==
    /\ treePc = "nodes"
    /\ treeIdx <= Len(treeInput)
    /\ nodeMap' = MapSet(nodeMap, treeInput[treeIdx].id, treeIdx)
    /\ replies' = Append(replies, <<>>)
    /\ treeIdx' = treeIdx + 1
    /\ UNCHANGED <<treeInput, roots, treePc, built>>
    /\ UNCHANGED storeVars

\* the first forEach is over, roots being a list that outlives the call
BuildRootsKept ==
    /\ treePc = "nodes"
    /\ treeIdx > Len(treeInput)
    /\ treePc' = "links"
    /\ treeIdx' = 1
    /\ UNCHANGED <<treeInput, nodeMap, replies, roots, built>>
    /\ UNCHANGED storeVars

\* the first forEach is over: const roots = []
BuildRoots ==
    /\ treePc = "nodes"
    /\ treeIdx > Len(treeInput)
    /\ roots' = <<>>
    /\ treePc' = "links"
    /\ treeIdx' = 1
    /\ UNCHANGED <<treeInput, nodeMap, replies, built>>
    /\ UNCHANGED storeVars

\* the second forEach pushing every node to roots, a reply as well
BuildLinkAllRoots ==
    /\ treePc = "links"
    /\ treeIdx <= Len(treeInput)
    /\ LET message == treeInput[treeIdx]
           node == nodeMap[message.id]
       IN  /\ roots' = Append(roots, node)
           /\ IF HasParent(nodeMap, message)
              THEN replies' = [replies EXCEPT ![nodeMap[message.parentId]] =
                                  Append(@, node)]
              ELSE UNCHANGED replies
    /\ treeIdx' = treeIdx + 1
    /\ UNCHANGED <<treeInput, nodeMap, treePc, built>>
    /\ UNCHANGED storeVars

\* the second forEach putting the node in front: unshift for push
BuildLinkInFront ==
    /\ treePc = "links"
    /\ treeIdx <= Len(treeInput)
    /\ LET message == treeInput[treeIdx]
           node == nodeMap[message.id]
       IN  IF HasParent(nodeMap, message)
           THEN /\ replies' = [replies EXCEPT ![nodeMap[message.parentId]] =
                                   <<node>> \o @]
                /\ UNCHANGED roots
           ELSE /\ roots' = <<node>> \o roots
                /\ UNCHANGED replies
    /\ treeIdx' = treeIdx + 1
    /\ UNCHANGED <<treeInput, nodeMap, treePc, built>>
    /\ UNCHANGED storeVars

\* one pass of the second forEach: the node goes under its parent or to roots
BuildLink ==
    /\ treePc = "links"
    /\ treeIdx <= Len(treeInput)
    /\ LET message == treeInput[treeIdx]
           node == nodeMap[message.id]
       IN  IF HasParent(nodeMap, message)
           THEN /\ replies' = [replies EXCEPT ![nodeMap[message.parentId]] =
                                   Append(@, node)]
                /\ UNCHANGED roots
           ELSE /\ roots' = Append(roots, node)
                /\ UNCHANGED replies
    /\ treeIdx' = treeIdx + 1
    /\ UNCHANGED <<treeInput, nodeMap, treePc, built>>
    /\ UNCHANGED storeVars

\* return roots
BuildReturn ==
    /\ treePc = "links"
    /\ treeIdx > Len(treeInput)
    /\ built' = Append(built, Forest)
    /\ treePc' = "idle"
    /\ UNCHANGED <<treeInput, nodeMap, replies, roots, treeIdx>>
    /\ UNCHANGED storeVars

TreeNext ==
    \/ BuildStart
    \/ BuildNode
    \/ BuildRoots
    \/ BuildLink
    \/ BuildReturn

TreeSpec == TreeInit /\ [][TreeNext]_vars

-----------------------------------------------------------------------------
(* buildmessageTree as a function of its argument *)

\* nodeMap after the first n passes of the first forEach over ms
RECURSIVE NodeMapOf(_, _)
NodeMapOf(ms, n) ==
    IF n = 0 THEN <<>>
    ELSE MapSet(NodeMapOf(ms, n - 1), ms[n].id, n)

\* roots and the replies arrays after the first n passes of the second
\* forEach over ms, the lookup being map
RECURSIVE Linked(_, _, _)
Linked(ms, map, n) ==
    IF n = 0
    THEN [roots |-> <<>>, replies |-> [k \in 1..Len(ms) |-> <<>>],
          messages |-> ms]
    ELSE LET f == Linked(ms, map, n - 1)
             message == ms[n]
             node == map[message.id]
         IN  IF HasParent(map, message)
             THEN [f EXCEPT !.replies[map[message.parentId]] = Append(@, node)]
             ELSE [f EXCEPT !.roots = Append(@, node)]

\* a builder that links each message in the pass that makes its node, when
\* the lookup holds only the messages up to it
RECURSIVE LinkedOnePass(_, _)
LinkedOnePass(ms, n) ==
    IF n = 0
    THEN [roots |-> <<>>, replies |-> [k \in 1..Len(ms) |-> <<>>],
          messages |-> ms]
    ELSE LET f == LinkedOnePass(ms, n - 1)
             map == NodeMapOf(ms, n)
             message == ms[n]
             node == map[message.id]
         IN  IF HasParent(map, message)
             THEN [f EXCEPT !.replies[map[message.parentId]] = Append(@, node)]
             ELSE [f EXCEPT !.roots = Append(@, node)]

buildmessageTreeOnePass(ms) == LinkedOnePass(ms, Len(ms))

\* buildmessageTree(ms): the forest it returns
buildmessageTree(ms) == Linked(ms, NodeMapOf(ms, Len(ms)), Len(ms))

-----------------------------------------------------------------------------
(* What the claims speak of *)

\* how often x stands in the sequence q
Count(q, x) == Cardinality({ k \in 1..Len(q) : q[k] = x })

RECURSIVE Sum(_, _)
Sum(f, n) == IF n = 0 THEN 0 ELSE f[n] + Sum(f, n - 1)

RECURSIVE Flatten(_)
Flatten(qs) == IF Len(qs) = 0 THEN <<>> ELSE Head(qs) \o Flatten(Tail(qs))

\* no two messages of ms have the same id
UniqueIds(ms) ==
    \A i, j \in 1..Len(ms) : ms[i].id = ms[j].id => i = j

\* the position of the message that message i names as its parent; 0 when
\* it names none or names an id no message has
ParentOf(ms, i) ==
    IF /\ ms[i].parentId # Null
       /\ \E j \in 1..Len(ms) : ms[j].id = ms[i].parentId
    THEN CHOOSE j \in 1..Len(ms) : ms[j].id = ms[i].parentId
    ELSE 0

\* the same, a parentId of "" naming no one
TruthyParentOf(ms, i) == IF ms[i].parentId = "" THEN 0 ELSE ParentOf(ms, i)

\* where k steps up the parents lead from message i; 0 once past a root
RECURSIVE Ancestor(_, _, _)
Ancestor(ms, i, k) ==
    IF i = 0 \/ k = 0 THEN i
    ELSE Ancestor(ms, TruthyParentOf(ms, i), k - 1)

\* the parents of message i end at a root: it is on no cycle and below none
Rooted(ms, i) == Ancestor(ms, i, Len(ms)) = 0

\* the nodes at depth d of the forest f, left to right
RECURSIVE Level(_, _)
Level(f, d) ==
    IF d = 0 THEN f.roots
    ELSE LET up == Level(f, d - 1)
         IN  Flatten([k \in 1..Len(up) |-> f.replies[up[k]]])

\* at how many positions reachable from the roots of f node n stands,
\* counted down to the depth of the longest chain of distinct nodes
Occurrences(f, n) ==
    Sum([d \in 1..Len(f.messages) |-> Count(Level(f, d - 1), n)],
        Len(f.messages))

\* in how many of the lists of f (roots and every replies) node n stands
Placements(f, n) ==
    Count(f.roots, n)
    + Sum([m \in 1..Len(f.replies) |-> Count(f.replies[m], n)],
          Len(f.replies))

-----------------------------------------------------------------------------
(* C1 *)

\* C1 as stated: in the forest a build returns, every input message stands
\* at exactly one position reachable from the roots, under the message its
\* parentId names when one has that id, and else as a root
C1_Original ==
    \A b \in 1..Len(built) :
        LET f == built[b]
            ms == f.messages
        IN  \A i \in 1..Len(ms) :
                /\ Occurrences(f, i) = 1
                /\ IF ParentOf(ms, i) # 0
                   THEN Count(f.replies[ParentOf(ms, i)], i) = 1
                   ELSE Count(f.roots, i) = 1

\* C1 amended: when the ids are pairwise distinct, every input message is
\* placed exactly once, in the replies of the message its parentId names when
\* that parentId is a non-empty id of the input, and else in the root list;
\* it stands at exactly one position reachable from the roots when its
\* parents end at a root, and at none when it is its own parent, lies on a
\* parentId cycle or descends from one
C1_PlacedOnce ==
    \A b \in 1..Len(built) :
        LET f == built[b]
            ms == f.messages
        IN  UniqueIds(ms) =>
            \A i \in 1..Len(ms) :
                /\ Placements(f, i) = 1
                /\ IF TruthyParentOf(ms, i) # 0
                   THEN Count(f.replies[TruthyParentOf(ms, i)], i) = 1
                   ELSE Count(f.roots, i) = 1
                /\ Occurrences(f, i) = IF Rooted(ms, i) THEN 1 ELSE 0

\* a build has returned the forest of three messages with distinct ids: one
\* its own parent, one a root, one a reply to that root
C1_Witness ==
    /\ Len(built) >= 1
    /\ LET ms == built[1].messages
       IN  /\ Len(ms) = 3
           /\ UniqueIds(ms)
           /\ \E i, j, k \in 1..3 :
                /\ TruthyParentOf(ms, i) = i
                /\ TruthyParentOf(ms, j) = 0
                /\ TruthyParentOf(ms, k) = j

-----------------------------------------------------------------------------
(* C2 *)

\* what the fragments of Script are once their emphasis markers are stripped
Cleaned ==
    << <<"H", "e", "l">>, <<"l", "o", " ">>, <<"w", "o", "r", "l", "d">> >>

\* C2: while a call that no other stream call overlaps is streaming, and in
\* the state in which its stream has ended, the text of the message it
\* allocated is the concatenation, in the order received, of the cleaned
\* fragments it has received
C2_Accumulates ==
    \A c \in CallIds :
        (/\ ~calls[c].overlapped
         /\ \/ Active(c)
            \/ last.op = "complete" /\ last.call = c)
        => messages[calls[c].aiIdx].text
             = Flatten(SubSeq(Cleaned, 1, calls[c].got))

\* the stream of a call that nothing overlapped has ended after two fragments
C2_Witness ==
    /\ last.op = "complete"
    /\ ~calls[last.call].overlapped
    /\ calls[last.call].got = 2
    /\ messages[calls[last.call].aiIdx].text = <<"H", "e", "l", "l", "o", " ">>

-----------------------------------------------------------------------------
(* C3 *)

\* C3 as stated: when a call whose source failed exits, the text of the
\* message it allocated is the error text
C3_ErrorShown ==
    \A c \in CallIds :
        (last.op = "fail" /\ last.call = c)
        => messages[calls[c].aiIdx].text = ErrorText

-----------------------------------------------------------------------------
(* C4 *)

\* C4: every call that has entered sendToGeminiStream exits, and the state
\* its exit leaves has isLoading false and currentStreamingMessage null
C4_ExitsClean ==
    /\ [](last.op \in {"complete", "fail"}
            => ~isLoading /\ currentStreamingMessage = Null)
    /\ \A c \in CallIds : Active(c) ~> calls[c].pc = "done"

\* a call started by an orchestrator, which set isLoading, has just exited
\* on a failure after a fragment
C4_Witness ==
    /\ last.op = "fail"
    /\ calls[last.call].caller = "orchestrator"
    /\ calls[last.call].pc = "done"
    /\ ~isLoading
    /\ currentStreamingMessage = Null

-----------------------------------------------------------------------------
(* C5 *)

\* C5 as stated: addMessage of a user message leaves latestAIMessageId as it
\* was, addMessage of an ai message sets it to the id of the new message
C5_TracksAI ==
    [][last'.op = "addMessage"
         => IF last'.ret.sender = "user"
            THEN latestAIMessageId' = latestAIMessageId
            ELSE latestAIMessageId' = last'.ret.id]_vars

-----------------------------------------------------------------------------
(* C6 *)

\* C6 as stated: no two messages of the store have the same id
C6_UniqueIds == UniqueIds(messages)

-----------------------------------------------------------------------------
(* C7 *)

\* t is empty or holds nothing but white space and line terminators
AllWhite(t) == \A k \in 1..Len(t) : t[k] \in WhiteSpace

\* C7: sendMessage with an empty or whitespace-only input, and
\* handleAIResponse and replyToMessage with an empty or whitespace-only text,
\* change no field of the store and start no stream
C7_NoOps ==
    [][(\/ last'.op = "sendMessage" /\ AllWhite(input)
        \/ last'.op \in {"handleAIResponse", "replyToMessage"}
             /\ AllWhite(last'.text))
       => UNCHANGED <<messages, input, isLoading, latestAIMessageId,
                      currentStreamingMessage, calls, uuidCount>>]_vars

\* sendMessage has just returned on a whitespace-only input, with a message
\* in the store
C7_Witness ==
    /\ last.op = "sendMessage"
    /\ input = <<"\\u000B", "\n">>
    /\ Len(messages) = 1

-----------------------------------------------------------------------------
(* C8 *)

\* a step of replyToMessage(p, text) appended a user message with this
\* parentId and this text, and after it the ai message of the call
ReplyAppended(parentId, text) ==
    /\ Len(messages') = Len(messages) + 2
    /\ SubSeq(messages', 1, Len(messages)) = messages
    /\ messages'[Len(messages) + 1].sender = "user"
    /\ messages'[Len(messages) + 1].parentId = parentId
    /\ messages'[Len(messages) + 1].text = text
    /\ messages'[Len(messages) + 2].sender = "ai"

\* C8 as stated: replyToMessage(p, text) with a text that is not blank
\* appends one user message with parentId p and that text, before the ai
\* message of the call
C8_Original ==
    [][(last'.op = "replyToMessage" /\ ~AllWhite(last'.text))
       => ReplyAppended(last'.parentId, last'.text)]_vars

\* C8 amended: the same for every p that is not the empty string; for the
\* empty string the parentId of the user message is null
C8_ReplyAppends ==
    [][(last'.op = "replyToMessage" /\ ~AllWhite(last'.text))
       => ReplyAppended(IF last'.parentId = "" THEN Null ELSE last'.parentId,
                        last'.text)]_vars

\* replyToMessage("1", " hi ") has just run on a store that held a message
C8_Witness ==
    /\ last.op = "replyToMessage"
    /\ last.parentId = "1"
    /\ Len(messages) = 3
    /\ messages[2].parentId = "1"
    /\ messages[2].text = <<" ", "h", "i", " ">>

-----------------------------------------------------------------------------
(* C9 *)

\* C9: the second build of an input returns a forest equal to the one the
\* first build returned, root for root and reply for reply, and the input
\* is after both builds what it was before them
C9_Deterministic ==
    Len(built) = 2 =>
        /\ built[2].roots = built[1].roots
        /\ built[2].replies = built[1].replies
        /\ built[2].messages = built[1].messages
        /\ treeInput = built[1].messages

\* two builds have returned the forest of three messages, one of them a
\* root with a reply
C9_Witness ==
    /\ Len(built) = 2
    /\ Len(treeInput) = 3
    /\ \E n \in 1..3 : Count(roots, n) = 1 /\ Len(replies[n]) >= 1

-----------------------------------------------------------------------------
(* C10 *)

Ids(ms) == { ms[i].id : i \in 1..Len(ms) }

\* a step of addMessage(md) appended the record ret, whose id and parentId
\* are told by the last two arguments
AddAppended(md, ret, idKept, parentIdKept) ==
    /\ messages' = Append(messages, ret)
    /\ IF idKept THEN ret.id = md.id ELSE ret.id \notin Ids(messages)
    /\ ret.text = IF Has(md, "text") THEN md.text ELSE <<>>
    /\ ret.sender = IF Has(md, "sender") THEN md.sender ELSE "user"
    /\ ret.isCode = IF Has(md, "isCode") THEN md.isCode ELSE FALSE
    /\ ret.parentId = IF parentIdKept THEN md.parentId ELSE Null

\* C10 as stated: addMessage appends the record it returns at the end, with
\* every field the caller supplied kept and every other field at its
\* default, the id being one no message of the store has
C10_Original ==
    [][last'.op = "addMessage"
       => AddAppended(last'.md, last'.ret,
                      Has(last'.md, "id"), Has(last'.md, "parentId"))]_vars

\* C10 amended: the same, except that an id supplied as the empty string is
\* replaced by a fresh id and a parentId supplied as the empty string by null
C10_AddAppends ==
    [][last'.op = "addMessage"
       => AddAppended(last'.md, last'.ret,
                      Has(last'.md, "id") /\ last'.md.id # "",
                      Has(last'.md, "parentId") /\ last'.md.parentId # "")]_vars

\* addMessage({}) has just run on a store that held two messages
C10_Witness ==
    /\ last.op = "addMessage"
    /\ DOMAIN last.md = {}
    /\ Len(messages) = 3
    /\ last.ret = messages[3]

-----------------------------------------------------------------------------
(* C11 *)

\* the id of the last ai message of ms, Null when ms holds none
RECURSIVE LastAI(_)
LastAI(ms) ==
    IF Len(ms) = 0 THEN Null
    ELSE IF ms[Len(ms)].sender = "ai" THEN ms[Len(ms)].id
    ELSE LastAI(SubSeq(ms, 1, Len(ms) - 1))

\* C11 as stated: when handleAIResponse appends a user message and the ai
\* message of its stream, the parentId of the ai message is the id of the
\* last ai message the store held before the call, null when it held none,
\* and latestAIMessageId becomes the id of the new ai message
C11_ChainsAI ==
    [][(last'.op = "handleAIResponse" /\ ~AllWhite(last'.text))
       => /\ messages'[Len(messages) + 2].parentId = LastAI(messages)
          /\ latestAIMessageId' = messages'[Len(messages) + 2].id]_vars

-----------------------------------------------------------------------------
(* C12 *)

\* C12 as stated: once a second stream call has allocated its message while
\* the first was awaiting fragments, every fragment either call receives is
\* appended to the message of the second call and not to that of the first
C12_Redirected ==
    [][(/\ last'.op = "chunk"
        /\ calls[1].pc # "idle"
        /\ calls[2].pc # "idle"
        /\ calls[2].overlapped
        /\ calls[3].pc = "idle")
       => /\ messages'[calls[2].aiIdx].text
               = messages[calls[2].aiIdx].text
                   \o beautifyPlainText(Script[calls[last'.call].got + 1])
          /\ messages'[calls[1].aiIdx].text
               = messages[calls[1].aiIdx].text]_vars

-----------------------------------------------------------------------------
(* C13 *)

\* C13: no message of the store has the fallback text of the catch blocks
\* of handleAIResponse and replyToMessage, however the streams end
C13_NoFallback ==
    \A i \in 1..Len(messages) : messages[i].text # FallbackText

\* the stream an orchestrator started has failed at request submission: its
\* message shows the error text of sendToGeminiStream, and none was appended
C13_Witness ==
    /\ last.op = "fail"
    /\ calls[last.call].caller = "orchestrator"
    /\ calls[last.call].got = 0
    /\ Len(messages) = calls[last.call].aiIdx
    /\ messages[calls[last.call].aiIdx].text = ErrorText
    /\ \A i \in 1..Len(messages) : messages[i].text # FallbackText

-----------------------------------------------------------------------------
(* C14 *)

\* how many set() calls of the operation that made the step append a
\* message: an orchestrator that goes on runs addMessage and then the first
\* set() of sendToGeminiStream before it suspends
Appends(op) ==
    IF op \in {"sendMessage", "handleAIResponse", "replyToMessage"}
    THEN 2 ELSE 1

\* C14: every step keeps the messages the store held, in their order, and
\* appends at most one message for each appending set() it runs; of a
\* message the store held it changes the text only, and only when the id of
\* the message is the currentStreamingMessage the step found
C14_AppendOnly ==
    [][/\ Len(messages') >= Len(messages)
       /\ Len(messages') <= Len(messages) + Appends(last'.op)
       /\ \A i \in 1..Len(messages) :
            /\ DOMAIN messages'[i] = DOMAIN messages[i]
            /\ \A f \in DOMAIN messages[i] \ {"text"} :
                   messages'[i][f] = messages[i][f]
            /\ messages'[i].text # messages[i].text
                   => messages[i].id = currentStreamingMessage]_vars

\* a stream has failed after a fragment: its message shows the error text,
\* and the user message before it still has the text it was given
C14_Witness ==
    /\ last.op = "fail"
    /\ calls[last.call].got = 1
    /\ calls[last.call].userIdx >= 1
    /\ messages[calls[last.call].aiIdx].text = ErrorText
    /\ messages[calls[last.call].userIdx].text = <<" ", "h", "i", " ">>

-----------------------------------------------------------------------------
(* C15 *)

\* the nodes of the list q stand in the order of their messages in the input
InInputOrder(q) == \A k, l \in 1..Len(q) : k < l => q[k] <= q[l]

\* the same, and no node stands in q twice
StrictlyInInputOrder(q) == \A k, l \in 1..Len(q) : k < l => q[k] < q[l]

\* C15 as stated: in the forest of every input, the root list and the
\* replies of every node hold their messages in the order of the input
C15_Original ==
    \A b \in 1..Len(built) :
        /\ InInputOrder(built[b].roots)
        /\ \A n \in 1..Len(built[b].replies) :
               InInputOrder(built[b].replies[n])

\* C15 amended: in the forest of every input whose ids are pairwise
\* distinct, the root list and the replies of every node hold their
\* messages, each once, in the order of the input
C15_SiblingOrder ==
    \A b \in 1..Len(built) :
        UniqueIds(built[b].messages) =>
            /\ StrictlyInInputOrder(built[b].roots)
            /\ \A n \in 1..Len(built[b].replies) :
                   StrictlyInInputOrder(built[b].replies[n])

\* a build has returned the forest of three messages with distinct ids, the
\* first and the third of them replies to the second
C15_Witness ==
    /\ Len(built) >= 1
    /\ UniqueIds(built[1].messages)
    /\ built[1].roots = <<2>>
    /\ built[1].replies = << <<>>, <<1, 3>>, <<>> >>

-----------------------------------------------------------------------------
(* C16 *)

\* where node n is placed in the forest f: in the root list, or under the
\* message with this id
PlacesOf(f, n) ==
    { <<"root", Null>> : k \in { k \in 1..Len(f.roots) : f.roots[k] = n } }
    \cup { <<"under", f.messages[m].id>> : m \in
             { m \in 1..Len(f.replies) : Count(f.replies[m], n) > 0 } }

\* the input in the order p: its k-th message is message p[k] of treeInput
Permuted(p) == [k \in 1..Len(treeInput) |-> treeInput[p[k]]]

\* C16: when the ids of the input are pairwise distinct, the forest of every
\* permutation of the input places each message where the forest built from
\* the input places it: under the message with the same id, or as a root
C16_OrderFree ==
    (Len(built) >= 1 /\ UniqueIds(treeInput)) =>
        \A p \in Permutations(1..Len(treeInput)) :
            \A k \in 1..Len(treeInput) :
                PlacesOf(buildmessageTree(Permuted(p)), k)
                    = PlacesOf(built[1], p[k])

\* a build has returned the forest of three messages with distinct ids whose
\* first message is a reply to the second and nested under it
C16_Witness ==
    /\ Len(built) >= 1
    /\ Len(treeInput) = 3
    /\ UniqueIds(treeInput)
    /\ treeInput[1].parentId = treeInput[2].id
    /\ built[1].replies[2] = <<1>>
    /\ Count(built[1].roots, 1) = 0

-----------------------------------------------------------------------------
(* C17 *)

\* C17: sendMessage on an input that is not blank empties the input and
\* appends a user message whose text is the input as it stood, untrimmed,
\* with parentId null, and after it the ai message of the stream
C17_SendsUntrimmed ==
    [][(last'.op = "sendMessage" /\ ~AllWhite(input))
       => /\ input' = <<>>
          /\ Len(messages') = Len(messages) + 2
          /\ SubSeq(messages', 1, Len(messages)) = messages
          /\ messages'[Len(messages) + 1].text = input
          /\ messages'[Len(messages) + 1].sender = "user"
          /\ messages'[Len(messages) + 1].parentId = Null
          /\ messages'[Len(messages) + 2].sender = "ai"]_vars

\* sendMessage has just run on the input " hi ": the input is empty and the
\* user message holds the blanks around the word
C17_Witness ==
    /\ last.op = "sendMessage"
    /\ last.text = <<" ", "h", "i", " ">>
    /\ input = <<>>
    /\ Len(messages) = 2
    /\ messages[1].text = <<" ", "h", "i", " ">>
    /\ messages[1].sender = "user"
    /\ messages[1].parentId = Null

-----------------------------------------------------------------------------
(* C18 *)

\* C18 as stated: while a stream that handleAIResponse or replyToMessage
\* started has allocated its message and not exited, isLoading is true and
\* currentStreamingMessage is the id of a message of the store
C18_LoadingWhileStreaming ==
    (\E c \in CallIds : Active(c) /\ calls[c].caller = "orchestrator")
        => /\ isLoading
           /\ \E i \in 1..Len(messages) :
                  messages[i].id = currentStreamingMessage

-----------------------------------------------------------------------------
(* C19 *)

\* the nodes in the replies of the nodes of S
Children(f, S) ==
    UNION { { f.replies[m][k] : k \in 1..Len(f.replies[m]) } : m \in S }

\* the nodes of S and those reachable from them in at most k steps down
RECURSIVE Reach(_, _, _)
Reach(f, S, k) ==
    IF k = 0 \/ S = {} THEN S
    ELSE S \cup Reach(f, Children(f, S), k - 1)

RootsOf(f) == { f.roots[k] : k \in 1..Len(f.roots) }

\* C19: in the forest of an input whose ids are pairwise distinct, no node
\* reachable from the roots is reachable from itself through replies, and no
\* path from a root is longer than the input: a traversal from the roots ends
C19_Acyclic ==
    \A b \in 1..Len(built) :
        LET f == built[b]
            n == Len(f.messages)
        IN  UniqueIds(f.messages) =>
                /\ \A x \in Reach(f, RootsOf(f), n) :
                       x \notin Reach(f, Children(f, {x}), n)
                /\ Level(f, n) = <<>>

\* a build has returned the forest of three messages with distinct ids: two
\* of them each other's parent, so each in the other's replies, and a root
C19_Witness ==
    /\ Len(built) >= 1
    /\ UniqueIds(built[1].messages)
    /\ built[1].roots = <<3>>
    /\ built[1].replies = << <<2>>, <<1>>, <<>> >>

====
